---- MODULE Spec2Model ----
(***************************************************************************)
(* Model of the Probaho chat widget (src/app.js).                          *)
(*                                                                         *)
(* The page is single-threaded: a key handler and the continuations of     *)
(* the async function sendMessage run to completion, one at a time.  Each  *)
(* invocation of sendMessage that passes the blank check is an activation  *)
(* with two suspension points: `await fetch(...)` and                      *)
(* `await response.json()`.  Texts are sequences of one-character strings  *)
(* so that trim() and split('\n') are computed, not assumed.               *)
(***************************************************************************)
EXTENDS Integers, Sequences, FiniteSets, TLC

\* ------------------------------------------------------------------ bounds
\* number of key events the page handles in one run
MaxKeys == 4
\* longest reply array a response body carries
MaxItems == 2

\* ------------------------------------------------------------- vocabulary
\* characters a key press can put into #user-input
Chars == {"a", " ", "\n"}
\* the characters among Chars that String.prototype.trim removes
Whitespace == {" ", "\n"}
\* e.key values of the modelled key events
Keys == {"a", " ", "Enter"}

\* app.js:23
RASA_URL == "http://localhost:8000/chat"

\* app.js:46, the literal 'Error connecting to server.'
ErrorText ==
  << "E","r","r","o","r"," ","c","o","n","n","e","c","t","i","n","g"," ",
     "t","o"," ","s","e","r","v","e","r","." >>

\* texts the backend puts in reply items
ReplyTexts == { <<"A">>, <<"B", "\n", "C">> }

\* One element of a parsed JSON array, as far as `msg.text` and
\* `text.split` can tell elements apart: an object whose text is a string, or
\* one whose text is missing (undefined has no split: TypeError).  A null
\* element and a text that is a number or an object throw the same
\* TypeError at the same place and are not enumerated separately.
Items ==
  { [ty |-> "string", text |-> t] : t \in ReplyTexts }
  \cup { [ty |-> "undefined", text |-> <<>>] }

RECURSIVE SeqsUpTo(_, _)
SeqsUpTo(S, n) ==
  IF n = 0 THEN { <<>> }
  ELSE LET shorter == SeqsUpTo(S, n - 1)
       IN  shorter \cup { Append(s, x) : s \in { q \in shorter : Len(q) = n - 1 }, x \in S }

\* What a response body is to response.json(): not JSON at all (the promise
\* rejects), or a JSON value that is null, a plain object, or an array.
Bodies ==
  { [kind |-> k, items |-> <<>>] : k \in {"nonjson", "null", "object"} }
  \cup { [kind |-> "array", items |-> s] : s \in SeqsUpTo(Items, MaxItems) }

\* A Response as fetch resolves it: `ok` is false for an HTTP error status.
Responses == [ok : BOOLEAN, body : Bodies]

NoResponse == [ok |-> TRUE, body |-> [kind |-> "none", items |-> <<>>]]

\* ------------------------------------------------------------------ state
VARIABLES
  input,         \* value of #user-input
  transcript,    \* children of #messages, in document order
  lineCounter,   \* app.js:2
  messageCount,  \* app.js:3
  calls,         \* activations of sendMessage that passed the blank check
  requests,      \* the fetch calls issued so far, in order
  delivered,     \* history: activations in the order they finished
  sendCalls,     \* history: number of sendMessage invocations
  keys           \* number of key events handled

vars == << input, transcript, lineCounter, messageCount, calls, requests,
           delivered, sendCalls, keys >>

\* -------------------------------------------------------- pure functions
\* String.prototype.trim on the modelled alphabet
RECURSIVE trimStart(_)
trimStart(s) ==
  IF s = <<>> THEN <<>>
  ELSE IF Head(s) \in Whitespace THEN trimStart(Tail(s))
  ELSE s

RECURSIVE trimEnd(_)
trimEnd(s) ==
  IF s = <<>> THEN <<>>
  ELSE IF s[Len(s)] \in Whitespace THEN trimEnd(SubSeq(s, 1, Len(s) - 1))
  ELSE s

trimSpacesOnly(s) ==
  LET F[i \in 0..Len(s)] ==
        IF i = 0 THEN <<>>
        ELSE IF s[i] = " " /\ F[i - 1] = <<>> THEN <<>>
        ELSE Append(F[i - 1], s[i])
  IN  F[Len(s)]

trim(s) == trimEnd(trimStart(s))

\* text.split('\n').length
splitLength(text) == 1 + Cardinality({ i \in 1..Len(text) : text[i] = "\n" })

\* the part of the page addMessage reads and writes
Dom == [transcript |-> transcript, lineCounter |-> lineCounter,
        messageCount |-> messageCount]

addMessageOneLine(d, text, sender, by) ==
  [ transcript   |-> Append(d.transcript,
                       [text |-> text, sender |-> sender,
                        line |-> d.lineCounter, by |-> by]),
    lineCounter  |-> d.lineCounter + 1,
    messageCount |-> d.messageCount + 1 ]

addMessageCountNewlines(d, text, sender, by) ==
  [ transcript   |-> Append(d.transcript,
                       [text |-> text, sender |-> sender,
                        line |-> d.lineCounter, by |-> by]),
    lineCounter  |-> d.lineCounter + splitLength(text) - 1,
    messageCount |-> d.messageCount + 1 ]

addMessagePrepend(d, text, sender, by) ==
  [ transcript   |-> << [text |-> text, sender |-> sender,
                         line |-> d.lineCounter, by |-> by] >> \o d.transcript,
    lineCounter  |-> d.lineCounter + splitLength(text),
    messageCount |-> d.messageCount + 1 ]

\* addMessage(text, sender) for a string text: a div with class sender and
\* data-line = lineCounter is appended to #messages, then both counters
\* move.  `by` is the activation that made the call (history only).
addMessage(d, text, sender, by) ==
  [ transcript   |-> Append(d.transcript,
                       [text |-> text, sender |-> sender,
                        line |-> d.lineCounter, by |-> by]),
    lineCounter  |-> d.lineCounter + splitLength(text),
    messageCount |-> d.messageCount + 1 ]

\* `addMessage(msg.text, 'bot')` throws a TypeError at text.split, before it
\* changes anything, when msg.text is not a string.
itemThrows(msg) == msg.ty # "string"


forEachReversed(d, items, by) ==
  LET F[i \in 0..Len(items)] ==
        IF i = 0 THEN [dom |-> d, threw |-> FALSE]
        ELSE IF F[i - 1].threw THEN F[i - 1]
        ELSE IF itemThrows(items[Len(items) + 1 - i]) THEN [dom |-> F[i - 1].dom, threw |-> TRUE]
        ELSE [dom |-> addMessage(F[i - 1].dom, items[Len(items) + 1 - i].text, "bot", by),
              threw |-> FALSE]
  IN  F[Len(items)]

forEachAppendThenThrow(d, items, by) ==
  LET F[i \in 0..Len(items)] ==
        IF i = 0 THEN [dom |-> d, threw |-> FALSE]
        ELSE IF F[i - 1].threw THEN F[i - 1]
        ELSE IF itemThrows(items[i])
          THEN [dom |-> [F[i - 1].dom EXCEPT
                           !.transcript = Append(@, [text |-> <<>>, sender |-> "bot",
                                                     line |-> F[i - 1].dom.lineCounter,
                                                     by |-> by])],
                threw |-> TRUE]
        ELSE [dom |-> addMessage(F[i - 1].dom, items[i].text, "bot", by),
              threw |-> FALSE]
  IN  F[Len(items)]

\* data.forEach(msg => addMessage(msg.text, 'bot')) on an array: the items
\* are visited in index order; the first callback that throws ends the
\* loop, and what earlier callbacks appended stays.
forEach(d, items, by) ==
  LET F[i \in 0..Len(items)] ==
        IF i = 0 THEN [dom |-> d, threw |-> FALSE]
        ELSE IF F[i - 1].threw THEN F[i - 1]
        ELSE IF itemThrows(items[i]) THEN [dom |-> F[i - 1].dom, threw |-> TRUE]
        ELSE [dom |-> addMessage(F[i - 1].dom, items[i].text, "bot", by),
              threw |-> FALSE]
  IN  F[Len(items)]

catchBlockTwice(d, by) ==
  addMessage(addMessage(d, ErrorText, "bot", by), ErrorText, "bot", by)

\* catch (err) { addMessage('Error connecting to server.', 'bot'); ... }
catchBlock(d, by) == addMessage(d, ErrorText, "bot", by)

processDataEmptyIsError(d, data, by) ==
  IF data.kind # "array" \/ data.items = <<>> THEN catchBlock(d, by)
  ELSE LET res == forEach(d, data.items, by)
       IN  IF res.threw THEN catchBlock(res.dom, by) ELSE res.dom

\* The statement `data.forEach(...)` inside the try, with the catch that
\* follows it: null and plain objects have no forEach (TypeError).
processData(d, data, by) ==
  IF data.kind # "array" THEN catchBlock(d, by)
  ELSE LET res == forEach(d, data.items, by)
       IN  IF res.threw THEN catchBlock(res.dom, by) ELSE res.dom

\* whether the statements of the try after `await response.json()` throw:
\* data.forEach on a value that is not an array, or a callback that throws
tryBodyThrows(d, data, by) ==
  data.kind # "array" \/ forEach(d, data.items, by).threw

endOfTryNoCatch(threw) == IF threw THEN "uncaught" ELSE "done"

\* How an activation ends once the try statement (app.js:32-48) is left.
\* Every throw and rejection inside the try goes to the catch; the catch
\* calls addMessage with a string literal and console.error, neither of
\* which throws, so the async function returns normally either way.
endOfTry(threw) == "done"

isSubmitKeyAnyEnter(key, shiftKey) == key = "Enter"

\* app.js:52, the condition of the keydown handler
isSubmitKey(key, shiftKey) == key = "Enter" /\ ~shiftKey

\* ---------------------------------------------------------------- actions
Init ==
  /\ input = <<>>
  /\ transcript = <<>>
  /\ lineCounter = 1
  /\ messageCount = 0
  /\ calls = <<>>
  /\ requests = <<>>
  /\ delivered = <<>>
  /\ sendCalls = 0
  /\ keys = 0

setDom(d) ==
  /\ transcript' = d.transcript
  /\ lineCounter' = d.lineCounter
  /\ messageCount' = d.messageCount

sendMessageTrimmed ==
  LET message == trim(input) IN
  /\ sendCalls' = sendCalls + 1
  /\ IF message = <<>>
     THEN UNCHANGED << input, transcript, lineCounter, messageCount, calls,
                       requests, delivered >>
     ELSE /\ setDom(addMessage(Dom, message, "user", Len(calls) + 1))
          /\ input' = <<>>
          /\ requests' = Append(requests,
                           [url |-> RASA_URL, method |-> "POST",
                            session_id |-> "user", message |-> message])
          /\ calls' = Append(calls,
                        [pc |-> "fetch", message |-> message,
                         response |-> NoResponse])
          /\ UNCHANGED delivered

sendMessageWhenIdle ==
  LET message == input IN
  /\ sendCalls' = sendCalls + 1
  /\ IF trim(message) = <<>> \/ \E q \in 1..Len(calls) : calls[q].pc # "done"
     THEN UNCHANGED << input, transcript, lineCounter, messageCount, calls,
                       requests, delivered >>
     ELSE /\ setDom(addMessage(Dom, message, "user", Len(calls) + 1))
          /\ input' = <<>>
          /\ requests' = Append(requests,
                           [url |-> RASA_URL, method |-> "POST",
                            session_id |-> "user", message |-> message])
          /\ calls' = Append(calls,
                        [pc |-> "fetch", message |-> message,
                         response |-> NoResponse])
          /\ UNCHANGED delivered

sendMessageBodyAfterClear ==
  LET message == input IN
  /\ sendCalls' = sendCalls + 1
  /\ IF trim(message) = <<>>
     THEN UNCHANGED << input, transcript, lineCounter, messageCount, calls,
                       requests, delivered >>
     ELSE /\ setDom(addMessage(Dom, message, "user", Len(calls) + 1))
          /\ input' = <<>>
          /\ requests' = Append(requests,
                           [url |-> RASA_URL, method |-> "POST",
                            session_id |-> "user", message |-> input'])
          /\ calls' = Append(calls,
                        [pc |-> "fetch", message |-> message,
                         response |-> NoResponse])
          /\ UNCHANGED delivered

\* sendMessage() up to its first await: read the field, return on blank
\* input, else append the user message, clear the field and call fetch.
sendMessage ==
  LET message == input IN
  /\ sendCalls' = sendCalls + 1
  /\ IF trim(message) = <<>>
     THEN UNCHANGED << input, transcript, lineCounter, messageCount, calls,
                       requests, delivered >>
     ELSE /\ setDom(addMessage(Dom, message, "user", Len(calls) + 1))
          /\ input' = <<>>
          /\ requests' = Append(requests,
                           [url |-> RASA_URL, method |-> "POST",
                            session_id |-> "user", message |-> message])
          /\ calls' = Append(calls,
                        [pc |-> "fetch", message |-> message,
                         response |-> NoResponse])
          /\ UNCHANGED delivered

\* The keydown handler of #user-input.  Enter without Shift is taken by the
\* handler (preventDefault, sendMessage); for every other event the handler
\* does nothing and the field's default action inserts the character
\* (Shift+Enter: a line break).
KeyDown(key, shiftKey) ==
  /\ keys < MaxKeys
  /\ keys' = keys + 1
  /\ IF isSubmitKey(key, shiftKey)
     THEN sendMessage
     ELSE /\ input' = Append(input, IF key = "Enter" THEN "\n" ELSE key)
          /\ UNCHANGED << transcript, lineCounter, messageCount, calls,
                          requests, delivered, sendCalls >>

\* `await fetch(...)` resolves with a Response, of any status and body
FetchResolve(r, resp) ==
  /\ calls[r].pc = "fetch"
  /\ calls' = [calls EXCEPT ![r].pc = "json", ![r].response = resp]
  /\ UNCHANGED << input, transcript, lineCounter, messageCount, requests,
                  delivered, sendCalls, keys >>

FetchRejectRetry(r) ==
  /\ calls[r].pc = "fetch"
  /\ setDom(catchBlock(Dom, r))
  /\ calls' = [calls EXCEPT ![r].pc = endOfTry(TRUE),
                            ![r].response.body.kind = "rejected"]
  /\ delivered' = Append(delivered, r)
  /\ requests' = Append(requests,
                   [url |-> RASA_URL, method |-> "POST",
                    session_id |-> "user", message |-> calls[r].message])
  /\ UNCHANGED << input, sendCalls, keys >>

\* `await fetch(...)` rejects: the catch block runs
FetchReject(r) ==
  /\ calls[r].pc = "fetch"
  /\ setDom(catchBlock(Dom, r))
  /\ calls' = [calls EXCEPT ![r].pc = endOfTry(TRUE),
                            ![r].response.body.kind = "rejected"]
  /\ delivered' = Append(delivered, r)
  /\ UNCHANGED << input, requests, sendCalls, keys >>

\* `await response.json()` rejects (the body is not JSON): the catch block
JsonReject(r) ==
  /\ calls[r].pc = "json"
  /\ calls[r].response.body.kind = "nonjson"
  /\ setDom(catchBlock(Dom, r))
  /\ calls' = [calls EXCEPT ![r].pc = endOfTry(TRUE)]
  /\ delivered' = Append(delivered, r)
  /\ UNCHANGED << input, requests, sendCalls, keys >>

JsonResolveSharedData(r) ==
  /\ calls[r].pc = "json"
  /\ calls[r].response.body.kind # "nonjson"
  /\ setDom(processData(Dom, calls[Len(calls)].response.body, r))
  /\ calls' = [calls EXCEPT ![r].pc = "done"]
  /\ delivered' = Append(delivered, r)
  /\ UNCHANGED << input, requests, sendCalls, keys >>

JsonResolveItemByItem(r) ==
  LET data == calls[r].response.body
      k == Len(SelectSeq(transcript, LAMBDA m : m.by = r /\ m.sender = "bot")) + 1
  IN
  /\ calls[r].pc = "json"
  /\ data.kind # "nonjson"
  /\ IF data.kind = "array" /\ k <= Len(data.items) /\ ~itemThrows(data.items[k])
     THEN /\ setDom(addMessage(Dom, data.items[k].text, "bot", r))
          /\ UNCHANGED << calls, delivered >>
     ELSE /\ IF data.kind = "array" /\ k > Len(data.items)
             THEN UNCHANGED << transcript, lineCounter, messageCount >>
             ELSE setDom(catchBlock(Dom, r))
          /\ calls' = [calls EXCEPT ![r].pc = "done"]
          /\ delivered' = Append(delivered, r)
  /\ UNCHANGED << input, requests, sendCalls, keys >>

\* `await response.json()` resolves with data; data.forEach runs, and the
\* catch block if it throws
JsonResolve(r) ==
  /\ calls[r].pc = "json"
  /\ calls[r].response.body.kind # "nonjson"
  /\ setDom(processData(Dom, calls[r].response.body, r))
  /\ calls' = [calls EXCEPT
       ![r].pc = endOfTry(tryBodyThrows(Dom, calls[r].response.body, r))]
  /\ delivered' = Append(delivered, r)
  /\ UNCHANGED << input, requests, sendCalls, keys >>

Next ==
  \/ \E key \in Keys, shiftKey \in BOOLEAN : KeyDown(key, shiftKey)
  \/ \E r \in 1..Len(calls), resp \in Responses : FetchResolve(r, resp)
  \/ \E r \in 1..Len(calls) : FetchReject(r)
  \/ \E r \in 1..Len(calls) : JsonReject(r)
  \/ \E r \in 1..Len(calls) : JsonResolve(r)

Spec == Init /\ [][Next]_vars


\* ------------------------------------------------- vocabulary of the claims
IsBlank(s) == \A i \in 1..Len(s) : s[i] = " " \/ s[i] = "\n"

Texts(ms) == [i \in 1..Len(ms) |-> ms[i].text]

MsgsBy(r) == SelectSeq(transcript, LAMBDA m : m.by = r)

BotBy(r) == SelectSeq(transcript, LAMBDA m : m.by = r /\ m.sender = "bot")

UserBy(r) == SelectSeq(transcript, LAMBDA m : m.by = r /\ m.sender = "user")

ItemTexts(items) == [i \in 1..Len(items) |-> items[i].text]

WellFormed(body) ==
  body.kind = "array" /\ \A i \in 1..Len(body.items) : body.items[i].ty = "string"

LinesOf(text) == Len(SelectSeq(text, LAMBDA c : c = "\n")) + 1

RECURSIVE TotalLines(_)
TotalLines(ms) ==
  IF ms = <<>> THEN 0 ELSE LinesOf(Head(ms).text) + TotalLines(Tail(ms))

Positions(r) == { i \in 1..Len(transcript) :
                    transcript[i].by = r /\ transcript[i].sender = "bot" }

\* ------------------------------------------------------------------ claims

\* C1: a sendMessage call on a field content that is blank (empty or only
\* whitespace) changes neither the field, the transcript, lineCounter,
\* messageCount, the requests issued nor the outstanding activations.
C1_BlankInputNoEffect ==
  [][ (sendCalls' # sendCalls /\ IsBlank(input))
        => UNCHANGED << input, transcript, lineCounter, messageCount,
                        requests, calls >> ]_vars

\* a blank, non-empty field content was submitted and is still in the field
W_C1 ==
  /\ sendCalls > Len(calls)
  /\ input # <<>>
  /\ IsBlank(input)
  /\ keys = sendCalls + Len(input)
  /\ requests = <<>>

\* C2: a sendMessage call on a non-blank field content s appends exactly one
\* message, sender user, text exactly s, in the step that issues the request;
\* and in every state each request issued has exactly one user message of its
\* submission in the transcript, with the request's text.
C2_UserMessageBeforeRequest ==
  /\ [][ (sendCalls' # sendCalls /\ ~IsBlank(input))
           => /\ Len(transcript') = Len(transcript) + 1
              /\ SubSeq(transcript', 1, Len(transcript)) = transcript
              /\ transcript'[Len(transcript')].sender = "user"
              /\ transcript'[Len(transcript')].text = input
              /\ Len(requests') = Len(requests) + 1 ]_vars
  /\ [](\A r \in 1..Len(requests) :
          /\ r <= Len(calls)
          /\ Len(UserBy(r)) = 1
          /\ UserBy(r)[1].text = calls[r].message)

\* a request is outstanding for a text with surrounding whitespace, and the
\* user message shows that text untrimmed
W_C2 ==
  \E r \in 1..Len(calls) :
    /\ calls[r].pc = "fetch"
    /\ calls[r].message = <<" ", "a", "\n">>
    /\ Texts(UserBy(r)) = << <<" ", "a", "\n">> >>

\* C3: once a submission whose request succeeded with an array of items that
\* all carry a text string has been processed, the bot messages of that
\* submission are the items' texts, one per item, in array order.
C3_RepliesInArrayOrder ==
  \A r \in 1..Len(calls) :
    (/\ calls[r].pc = "done"
     /\ calls[r].response.ok
     /\ WellFormed(calls[r].response.body))
      => Texts(BotBy(r)) = ItemTexts(calls[r].response.body.items)

\* a processed response [{text: A}, {text: B\nC}] shows as bot/A then bot/B\nC
W_C3 ==
  \E r \in 1..Len(calls) :
    /\ calls[r].pc = "done"
    /\ calls[r].response.ok
    /\ ItemTexts(calls[r].response.body.items) = << <<"A">>, <<"B", "\n", "C">> >>
    /\ Texts(BotBy(r)) = << <<"A">>, <<"B", "\n", "C">> >>

\* C4: once a submission whose fetch rejected, or whose body was not JSON,
\* has been processed, the messages of that submission are its user message
\* followed by one bot message with the fixed error text, and no request
\* beyond the one per submission has been issued.
C4_FailureOneErrorMessage ==
  /\ Len(requests) = Len(calls)
  /\ \A r \in 1..Len(calls) :
       (calls[r].pc = "done" /\ calls[r].response.body.kind \in {"rejected", "nonjson"})
         => /\ Len(MsgsBy(r)) = 2
            /\ MsgsBy(r)[1].sender = "user"
            /\ MsgsBy(r)[2].sender = "bot"
            /\ MsgsBy(r)[2].text = ErrorText

\* one submission ended by a rejected fetch and another by a non-JSON body
W_C4 ==
  \E r1, r2 \in 1..Len(calls) :
    /\ calls[r1].pc = "done" /\ calls[r1].response.body.kind = "rejected"
    /\ calls[r2].pc = "done" /\ calls[r2].response.body.kind = "nonjson"
    /\ Texts(BotBy(r1)) = << ErrorText >>
    /\ Texts(BotBy(r2)) = << ErrorText >>

\* C5: once a submission whose body parsed as JSON but is not an array of
\* objects with a string text has been processed, the bot messages of that
\* submission are the fixed error message alone.
C5_WrongShapeSingleError ==
  \A r \in 1..Len(calls) :
    (/\ calls[r].pc = "done"
     /\ calls[r].response.body.kind \in {"null", "object", "array"}
     /\ ~WellFormed(calls[r].response.body))
      => Texts(BotBy(r)) = << ErrorText >>

\* C6: once a submission whose response had an HTTP error status has been
\* processed, whatever the body, the bot messages of that submission are the
\* fixed error message alone.
C6_HttpErrorIsFailure ==
  \A r \in 1..Len(calls) :
    (/\ calls[r].pc = "done"
     /\ calls[r].response.body.kind # "rejected"
     /\ ~calls[r].response.ok)
      => Texts(BotBy(r)) = << ErrorText >>

\* C7: under every interleaving of submissions and deliveries: each
\* submission has its user message from submission time on and no bot
\* message before its response is delivered; the bot messages of a delivered
\* well-formed response are exactly its own items' texts in order; bot
\* messages of different submissions appear in delivery order; and every bot
\* message belongs to one delivered submission and carries the text of an
\* item of that submission's response (or the fixed text of its failure).
C7_OverlapNoCrossContamination ==
  /\ \A r \in 1..Len(calls) :
       /\ Texts(UserBy(r)) = << calls[r].message >>
       /\ calls[r].pc # "done" => BotBy(r) = <<>>
       /\ (calls[r].pc = "done" /\ WellFormed(calls[r].response.body))
            => Texts(BotBy(r)) = ItemTexts(calls[r].response.body.items)
  /\ \A i, j \in 1..Len(delivered) :
       i < j => \A p \in Positions(delivered[i]), q \in Positions(delivered[j]) : p < q
  /\ \A k \in 1..Len(transcript) :
       transcript[k].sender = "bot"
         => /\ \E i \in 1..Len(delivered) : delivered[i] = transcript[k].by
            /\ \/ transcript[k].text = ErrorText
               \/ \E n \in 1..Len(calls[transcript[k].by].response.body.items) :
                    calls[transcript[k].by].response.body.items[n].text = transcript[k].text

\* two overlapping submissions, the second answered first: both user
\* messages precede both replies, and the replies are in delivery order
W_C7 ==
  /\ Len(calls) = 2
  /\ delivered = << 2, 1 >>
  /\ ItemTexts(calls[1].response.body.items) = << <<"A">> >>
  /\ ItemTexts(calls[2].response.body.items) = << <<"B", "\n", "C">> >>
  /\ Len(transcript) = 4
  /\ transcript[1].sender = "user" /\ transcript[1].by = 1
  /\ transcript[2].sender = "user" /\ transcript[2].by = 2
  /\ transcript[3].text = <<"B", "\n", "C">> /\ transcript[3].by = 2
  /\ transcript[4].text = <<"A">> /\ transcript[4].by = 1

\* C8: every step leaves the messages already in the transcript in place and
\* unchanged, adding zero or more at the end.
C8_TranscriptAppendOnly ==
  [][ /\ Len(transcript') >= Len(transcript)
      /\ SubSeq(transcript', 1, Len(transcript)) = transcript ]_vars

\* the user message of a failed request and the user message of a request
\* that is still outstanding are both on display after the error message
W_C8 ==
  /\ Len(calls) = 2
  /\ calls[1].pc = "done" /\ calls[1].response.body.kind = "rejected"
  /\ calls[2].pc = "fetch"
  /\ Len(transcript) = 3
  /\ transcript[1].sender = "user" /\ transcript[1].text = calls[1].message
  /\ transcript[2].sender = "user" /\ transcript[2].text = calls[2].message
  /\ transcript[3].text = ErrorText

\* C9: a key event on the input field calls sendMessage exactly once, on the
\* current field content, when it is Enter without Shift, and not at all when
\* it is Shift+Enter or any other key.
C9_EnterWithoutShiftSubmits ==
  [][ \A key \in Keys, shiftKey \in BOOLEAN :
        KeyDown(key, shiftKey)
          => /\ sendCalls' - sendCalls
                  = (IF key = "Enter" /\ ~shiftKey THEN 1 ELSE 0)
             /\ (key = "Enter" /\ ~shiftKey /\ ~IsBlank(input))
                  => /\ Len(requests') = Len(requests) + 1
                     /\ requests'[Len(requests')].message = input
             /\ ~(key = "Enter" /\ ~shiftKey)
                  => UNCHANGED << transcript, requests, calls >> ]_vars

\* Shift+Enter put a line break in the field without submitting; the Enter
\* that followed submitted once
W_C9 ==
  /\ keys = 4
  /\ sendCalls = 1
  /\ Len(calls) = 1
  /\ calls[1].message = <<"a", "\n", "a">>
  /\ input = <<>>

\* C10: lineCounter is 1 plus the sum, over the messages of the transcript,
\* of the number of newline-delimited lines of the text (at least 1 each),
\* and each message's data-line is the counter before its own lines.
C10_LineCounterSumsLines ==
  /\ lineCounter = 1 + TotalLines(transcript)
  /\ \A i \in 1..Len(transcript) :
       /\ LinesOf(transcript[i].text) >= 1
       /\ transcript[i].line = 1 + TotalLines(SubSeq(transcript, 1, i - 1))

\* a 3-line user message moved the counter by exactly 3
W_C10 ==
  /\ Len(transcript) = 1
  /\ transcript[1].text = <<"a", "\n", "\n">>
  /\ transcript[1].sender = "user"
  /\ transcript[1].line = 1
  /\ lineCounter = 4

\* C11: the step that processes a parsed response that is the empty array
\* leaves transcript, lineCounter and messageCount as they were, and in every
\* state a submission ended by such a response has its user message as its
\* only message: no bot message, no error message.
C11_EmptyArrayNoMessages ==
  /\ [][ \A r \in 1..Len(calls) :
           (/\ calls[r].pc = "json"
            /\ calls'[r].pc # "json"
            /\ calls[r].response.body = [kind |-> "array", items |-> <<>>])
             => UNCHANGED << transcript, lineCounter, messageCount >> ]_vars
  /\ [](\A r \in 1..Len(calls) :
          (/\ calls[r].pc = "done"
           /\ calls[r].response.body = [kind |-> "array", items |-> <<>>])
            => /\ Len(MsgsBy(r)) = 1
               /\ MsgsBy(r)[1].sender = "user"
               /\ MsgsBy(r)[1].text = calls[r].message)

\* a successful [] was processed: the transcript is the user message alone
\* and the counters are those of that one append
W_C11 ==
  /\ Len(calls) = 1
  /\ calls[1].pc = "done"
  /\ calls[1].response = [ok |-> TRUE, body |-> [kind |-> "array", items |-> <<>>]]
  /\ Texts(transcript) = << calls[1].message >>
  /\ messageCount = 1
  /\ lineCounter = 1 + LinesOf(calls[1].message)

\* what the request of a finished submission came to: a failure of the
\* network step or of the processing of the response
Failed(c) ==
  \/ c.response.body.kind \in {"rejected", "nonjson", "null", "object"}
  \/ c.response.body.kind = "array" /\ ~WellFormed(c.response.body)

\* C12: no activation of sendMessage is ever in an uncaught-error state:
\* each is awaiting fetch, awaiting json() or completed; and once the request
\* of a submission has failed in any way (rejection, non-JSON body, JSON of
\* the wrong shape, item without a string text) the submission is completed
\* and its last message is the fixed bot error message, shown once.
C12_NoFailureEscapes ==
  \A r \in 1..Len(calls) :
    /\ calls[r].pc \in {"fetch", "json", "done"}
    /\ (calls[r].pc \notin {"fetch", "json"} /\ Failed(calls[r]))
         => /\ calls[r].pc = "done"
            /\ BotBy(r) # <<>>
            /\ BotBy(r)[Len(BotBy(r))].text = ErrorText
            /\ Cardinality({ i \in 1..Len(BotBy(r)) : BotBy(r)[i].text = ErrorText }) = 1

\* one submission completed after an item without text followed a good one,
\* another after a body that is a JSON object: both show the error message
W_C12 ==
  \E r1, r2 \in 1..Len(calls) :
    /\ calls[r1].pc = "done"
    /\ calls[r1].response.body.kind = "array"
    /\ Len(calls[r1].response.body.items) = 2
    /\ calls[r1].response.body.items[1].ty = "string"
    /\ calls[r1].response.body.items[2].ty = "undefined"
    /\ calls[r2].pc = "done"
    /\ calls[r2].response.body.kind = "object"
    /\ BotBy(r1)[Len(BotBy(r1))].text = ErrorText
    /\ Texts(BotBy(r2)) = << ErrorText >>

UserMessages == SelectSeq(transcript, LAMBDA m : m.sender = "user")

\* C13: in every state the number of requests issued so far equals the
\* number of user messages in the transcript (one request per non-blank
\* submission, none re-issued after a failure, none queued), and the k-th
\* request carries the text of the k-th user message.
C13_OneRequestPerSubmission ==
  /\ Len(requests) = Len(UserMessages)
  /\ \A k \in 1..Len(requests) : requests[k].message = UserMessages[k].text

\* two submissions, both failed (one at fetch, one at json()), and still
\* exactly two requests
W_C13 ==
  /\ Len(requests) = 2
  /\ Len(UserMessages) = 2
  /\ Len(calls) = 2
  /\ calls[1].pc = "done" /\ calls[1].response.body.kind = "rejected"
  /\ calls[2].pc = "done" /\ calls[2].response.body.kind = "nonjson"
  /\ sendCalls = 2

\* C14: in every state, for every submission r whose request is still
\* outstanding: r has added no bot or error message; an Enter on a non-blank
\* field (while the run may still take a key event) is accepted, appending
\* its user message and issuing its request without touching r; and every
\* other outstanding submission can have its response delivered and
\* processed to completion, again without touching r.
C14_OutstandingBlocksNothing ==
  \A r \in 1..Len(calls) :
    calls[r].pc = "fetch"
      => /\ BotBy(r) = <<>>
         /\ (keys < MaxKeys /\ ~IsBlank(input))
              => ENABLED (/\ KeyDown("Enter", FALSE)
                          /\ Len(calls') = Len(calls) + 1
                          /\ Len(requests') = Len(requests) + 1
                          /\ transcript' = Append(transcript, transcript'[Len(transcript')])
                          /\ transcript'[Len(transcript')].text = input
                          /\ transcript'[Len(transcript')].sender = "user"
                          /\ calls'[r] = calls[r])
         /\ \A q \in (1..Len(calls)) \ {r} :
              /\ calls[q].pc = "fetch"
                   => /\ ENABLED (FetchReject(q) /\ calls'[q].pc = "done" /\ calls'[r] = calls[r])
                      /\ \A resp \in Responses :
                           ENABLED (FetchResolve(q, resp) /\ calls'[r] = calls[r])
              /\ calls[q].pc = "json"
                   => ENABLED (/\ JsonReject(q) \/ JsonResolve(q)
                               /\ calls'[q].pc = "done"
                               /\ calls'[r] = calls[r])

\* the first request is still outstanding while a later submission was
\* accepted, answered and shown
W_C14 ==
  /\ Len(calls) = 2
  /\ calls[1].pc = "fetch"
  /\ calls[2].pc = "done"
  /\ Len(requests) = 2
  /\ BotBy(1) = <<>>
  /\ Texts(BotBy(2)) = << <<"A">> >>
  /\ Len(transcript) = 3

\* C15: the data-line values of the messages are strictly increasing along
\* the transcript, whatever the senders and the interleaving of submissions
\* and deliveries; no two messages share one; and the counter is beyond all.
C15_DataLineStrictlyIncreasing ==
  /\ \A i, j \in 1..Len(transcript) :
       i < j => transcript[i].line < transcript[j].line
  /\ \A i \in 1..Len(transcript) : transcript[i].line < lineCounter

\* user, user, bot of the second submission, bot of the first: four
\* messages of both senders at four increasing positions
W_C15 ==
  /\ Len(transcript) = 4
  /\ delivered = << 2, 1 >>
  /\ transcript[1].sender = "user" /\ transcript[2].sender = "user"
  /\ transcript[3].sender = "bot" /\ transcript[3].by = 2
  /\ transcript[4].sender = "bot" /\ transcript[4].by = 1
  /\ transcript[1].line = 1
  /\ transcript[2].line = 2
  /\ transcript[3].text = ErrorText
  /\ transcript[3].line = 3
  /\ transcript[4].line = 4

\* C16: a sendMessage call on a non-blank field content issues a request
\* whose message is that content, raw, and leaves the field empty; no step
\* changes a request already issued; and in every state the message of the
\* r-th request is the text of the user message of the r-th submission.
C16_PayloadIsRawInput ==
  /\ [][ /\ (sendCalls' # sendCalls /\ ~IsBlank(input))
              => /\ input' = <<>>
                 /\ Len(requests') = Len(requests) + 1
                 /\ requests'[Len(requests')].message = input
                 /\ requests'[Len(requests')].session_id = "user"
         /\ Len(requests') >= Len(requests)
         /\ \A k \in 1..Len(requests) : requests'[k] = requests[k] ]_vars
  /\ [](\A r \in 1..Len(requests) :
          /\ UserBy(r) # <<>>
          /\ requests[r].message = UserBy(r)[1].text)

\* the request carries "a " with its trailing blank while the field, emptied
\* by the submission, already holds the next text being typed
W_C16 ==
  /\ Len(requests) = 1
  /\ requests[1].message = <<"a", " ">>
  /\ Texts(UserBy(1)) = << <<"a", " ">> >>
  /\ input = <<"a">>
  /\ keys = 4

\* C17: in every state the bot messages of one submission's response occupy
\* consecutive places of the transcript: between the first and the last of
\* them there is no user message and no bot message of another submission.
C17_ResponseMessagesContiguous ==
  \A r \in 1..Len(calls) :
    \A p, q \in Positions(r) :
      \A k \in p..q :
        transcript[k].by = r /\ transcript[k].sender = "bot"

\* two overlapping submissions, each answered with two items; the second
\* response was delivered first and each pair of replies sits together
W_C17 ==
  /\ Len(calls) = 2
  /\ delivered = << 2, 1 >>
  /\ Len(calls[1].response.body.items) = 2
  /\ Len(calls[2].response.body.items) = 2
  /\ Positions(2) = {3, 4}
  /\ Positions(1) = {5, 6}
  /\ Texts(BotBy(1)) = << <<"A">>, <<"B", "\n", "C">> >>
  /\ Texts(BotBy(2)) = << <<"B", "\n", "C">>, <<"A">> >>

\* C18: in every state messageCount is the number of messages in the
\* transcript, of whatever sender, and lineCounter accounts for exactly
\* those messages: a call of addMessage that throws (an item without a
\* string text, part-way through a response) has left no message and moved
\* no counter.
C18_MessageCountIsTranscriptLength ==
  /\ messageCount = Len(transcript)
  /\ lineCounter = 1 + TotalLines(transcript)
  /\ \A i \in 1..Len(transcript) : transcript[i].sender \in {"user", "bot"}

\* a response whose second item has no text: the user message, the first
\* reply and the error message are counted, the failed append is not
W_C18 ==
  /\ Len(calls) = 1
  /\ calls[1].pc = "done"
  /\ calls[1].response.body.kind = "array"
  /\ Len(calls[1].response.body.items) = 2
  /\ calls[1].response.body.items[1].ty = "string"
  /\ calls[1].response.body.items[2].ty = "undefined"
  /\ Len(transcript) = 3
  /\ transcript[3].text = ErrorText
  /\ messageCount = 3

====
